---- MODULE Spec2Model ----
(***************************************************************************)
(* Model of pyvenv.py: the environment-name derivation (get_venv_name),    *)
(* the bootstrap-script installer with its two pipe readers                *)
(* (VenvBuilder.install_script / VenvBuilder.reader), the builder          *)
(* (VenvBuilder.__init__ / post_setup) and the command dispatch of main(). *)
(***************************************************************************)
EXTENDS Integers, Sequences, FiniteSets, TLC

(***************************************************************************)
(* Bounds of the model.                                                    *)
(***************************************************************************)
\* number of filler characters put in front of a long working directory
PadLen == 41
\* longest variable tail of a working-directory path
MaxSuffix == 3
\* lines an OS pipe holds before a write to it blocks
PipeCap == 1
\* most lines a bootstrap script writes when install_script is run alone
MaxLines == 3
\* most lines a bootstrap script writes when it runs inside main()
MainLines == 1

(***************************************************************************)
(* Part 1: get_venv_name                                                   *)
(***************************************************************************)
\* the slice bound of location[0:42]
TruncLen == 42

\* the character class of the re.sub pattern
\* (characters that have no TLA+ string literal are written by name)
SanitizedChars ==
    {" ", "$", "BACKTICK", "!", "*", "@", "DQUOTE", "BACKSLASH", "CR", "LF", "TAB"}

Min(a, b) == IF a < b THEN a ELSE b

\* re.sub: every character of the class becomes an underscore
Sanitize(s) == [i \in 1..Len(s) |-> IF s[i] \in SanitizedChars THEN "_" ELSE s[i]]

\* location[0:42]
Truncate(s) == SubSeq(s, 1, Min(Len(s), TruncLen))

\* index of the last "/" of a path (0 when there is none)
LastSlash(s) ==
    IF \E i \in 1..Len(s) : s[i] = "/"
    THEN CHOOSE i \in 1..Len(s) : s[i] = "/" /\ \A j \in (i+1)..Len(s) : s[j] # "/"
    ELSE 0

\* PurePath(location).parts[-1]; the root directory is its own only part
LastPart(s) == IF Len(s) = 1 THEN s ELSE SubSeq(s, LastSlash(s) + 1, Len(s))

\* base64.urlsafe_b64encode(sha256(x).digest()[:6]).decode()[:8]: a fixed-width
\* block of 8 characters; the hash is taken as collision-free, so the block
\* determines its input
HashToken(x) == [sha256 |-> x]

\* '{}-{}'.format(current_dir, ec[:8]), as a sequence of characters in which
\* the 8-character token is one block
Format(current_dir, ec) == current_dir \o <<"-">> \o <<ec>>

\* the base name taken from the sanitized location instead of the raw one
get_venv_name_SanitizedBase(cwd) ==
    LET location == Truncate(Sanitize(cwd))
    IN  Format(LastPart(Sanitize(cwd)), HashToken(location))

get_venv_name(cwd) ==
    LET current_dir == LastPart(cwd)
        location == Truncate(Sanitize(cwd))
    IN  Format(current_dir, HashToken(location))

\* working directories as Path.cwd() returns them: absolute, no empty
\* segment, no trailing separator
PathChars == {"/", " ", "_"}

RECURSIVE SeqsUpTo(_, _)
SeqsUpTo(S, n) ==
    IF n = 0 THEN {<<>>}
    ELSE LET shorter == SeqsUpTo(S, n - 1)
         IN  shorter \cup {Append(s, c) : s \in {t \in shorter : Len(t) = n - 1}, c \in S}

WellFormed(p) ==
    /\ Len(p) >= 1
    /\ p[1] = "/"
    /\ Len(p) > 1 => p[Len(p)] # "/"
    /\ \A i \in 1..(Len(p) - 1) : ~(p[i] = "/" /\ p[i+1] = "/")

Pad(n) == [i \in 1..n |-> "a"]

WorkingDirs ==
    {p \in {<<"/">> \o Pad(n) \o s : n \in {0, PadLen}, s \in SeqsUpTo(PathChars, MaxSuffix)} :
        WellFormed(p)}

VARIABLES cwd1, cwd2, name1, name2, namePc

nameVars == <<cwd1, cwd2, name1, name2, namePc>>

VARIABLES
    verbose,     \* self.verbose of the builder
    files,       \* the downloaded scripts present in context.bin_path
    isPc,        \* where the main thread is in install_script
    isScript,    \* the package (file name) install_script is installing
    child,       \* the Popen child: status, the lines it still writes, exit code
    pipe,        \* the lines buffered in the child's stdout and stderr pipes
    reader,      \* the state of the two reader threads
    written,     \* the lines the child has written to each stream
    consumed,    \* the lines each reader has taken with readline()
    echoed,      \* how many lines each reader has put on sys.stderr
    milestones,  \* the milestone strings written to sys.stderr
    spawned,     \* the child processes spawned so far in this invocation
    mutations    \* the filesystem changes made so far in this invocation

isVars == <<verbose, files, isPc, isScript, child, pipe, reader, written, consumed,
            echoed, milestones, spawned, mutations>>

VARIABLES
    venvExists,     \* whether venv_location exists on disk
    environ,        \* os.environ: which of the variables main() reads are set
    argv,           \* the command line of the invocation
    options,        \* the Namespace parse_args() returned
    venv_exists,    \* the local venv_exists of main()
    mainPc,         \* where main() is
    outcome,        \* how main() ended: the value returned or the exception
    messages,       \* what main() wrote to sys.stderr
    bootstrapCodes, \* the exit codes of the bootstrap children of this build
    proxyResult     \* the result of the child spawned by the dispatch

mainVars == <<venvExists, environ, argv, options, venv_exists, mainPc, outcome,
              messages, bootstrapCodes, proxyResult>>

vars == <<nameVars, isVars, mainVars>>

(***************************************************************************)
(* Part 2: VenvBuilder.install_script and VenvBuilder.reader               *)
(***************************************************************************)
Streams == {"stdout", "stderr"}

\* a line of child output: the stream it goes to and whether its bytes are
\* valid UTF-8 (what s.decode('utf-8') in reader depends on)
Lines == [stream : Streams, utf8 : BOOLEAN]

\* what a bootstrap script may write before it exits
ChildPrograms(n) == SeqsUpTo(Lines, n)

\* the file names of the two bootstrap scripts (the last component of the
\* url path in install_setuptools and install_pip)
Scripts == {"ez_setup.py", "get-pip.py"}

\* the progress argument of VenvBuilder: main() never passes one
progress == "None"

\* context.env_exe, the interpreter of the environment
env_exe == "VENV/bin/python"

NoChild == [status |-> "none", prog |-> <<>>, code |-> 0]

EmptyStreams == [s \in Streams |-> <<>>]

\* install_script(context, name, url) is entered: package and dist_path are
\* computed from the url
install_script(package) ==
    /\ isPc = "idle"
    /\ isPc' = "download"
    /\ isScript' = package
    /\ child' = NoChild
    /\ pipe' = EmptyStreams
    /\ reader' = [s \in Streams |-> "none"]
    /\ written' = EmptyStreams
    /\ consumed' = EmptyStreams
    /\ echoed' = [s \in Streams |-> 0]
    /\ milestones' = <<>>
    /\ UNCHANGED <<verbose, files, spawned, mutations>>

\* urlretrieve(url, dist_path), then the 'Installing ...' milestone; a failed
\* download raises out of install_script
IS_Download ==
    /\ isPc = "download"
    /\ \/ /\ files' = files \cup {isScript}
          /\ mutations' = mutations \cup {"download"}
          /\ milestones' = Append(milestones, "Installing")
          /\ isPc' = "spawn"
       \/ /\ isPc' = "raised"
          /\ UNCHANGED <<files, mutations, milestones>>
    /\ UNCHANGED <<verbose, isScript, child, pipe, reader, written, consumed, echoed,
                   spawned>>

\* Popen(setup_cmds, stdout=PIPE, stderr=PIPE, cwd=bin_path) and the start of
\* the two reader threads
IS_Spawn(prog) ==
    /\ isPc = "spawn"
    /\ child' = [status |-> "running", prog |-> prog, code |-> 0]
    /\ reader' = [s \in Streams |-> "running"]
    /\ spawned' = Append(spawned, [kind |-> "bootstrap", argv |-> <<env_exe, isScript>>,
                                   shell |-> FALSE, env |-> {}])
    /\ isPc' = "wait"
    /\ UNCHANGED <<verbose, files, isScript, pipe, written, consumed, echoed, milestones,
                   mutations>>

\* Popen raises OSError (the interpreter cannot be executed, fork fails)
IS_SpawnFails ==
    /\ isPc = "spawn"
    /\ isPc' = "raised"
    /\ UNCHANGED <<verbose, files, isScript, child, pipe, reader, written, consumed,
                   echoed, milestones, spawned, mutations>>

\* the child writes its next line; the write blocks while the pipe is full
ChildWrite ==
    /\ child.status = "running"
    /\ child.prog # <<>>
    /\ LET line == Head(child.prog)
       IN  /\ Len(pipe[line.stream]) < PipeCap
           /\ pipe' = [pipe EXCEPT ![line.stream] = Append(@, line)]
           /\ written' = [written EXCEPT ![line.stream] = Append(@, line)]
           /\ child' = [child EXCEPT !.prog = Tail(@)]
    /\ UNCHANGED <<verbose, files, isPc, isScript, reader, consumed, echoed, milestones, spawned, mutations>>

\* the child has written everything and exits, closing its ends of the pipes;
\* ez_setup.py may leave the setuptools archive it fetched in bin_path
ChildExit ==
    /\ child.status = "running"
    /\ child.prog = <<>>
    /\ \E code \in {0, 1} : child' = [child EXCEPT !.status = "exited", !.code = code]
    /\ \E archive \in BOOLEAN :
          files' = IF archive /\ isScript = "ez_setup.py"
                   THEN files \cup {"setuptools-1.tar.gz"}
                   ELSE files
    /\ UNCHANGED <<verbose, isPc, isScript, pipe, reader, written, consumed,
                   echoed, milestones, spawned, mutations>>

\* one turn of the loop of reader(stream, context) with a line to read:
\* without verbose a dot is written; with verbose the line is decoded, and
\* bytes that are not UTF-8 raise UnicodeDecodeError, which ends the thread
ReaderLine(s) ==
    /\ reader[s] = "running"
    /\ pipe[s] # <<>>
    /\ pipe' = [pipe EXCEPT ![s] = Tail(@)]
    /\ consumed' = [consumed EXCEPT ![s] = Append(@, Head(pipe[s]))]
    /\ IF progress = "None" /\ verbose /\ ~Head(pipe[s]).utf8
       THEN /\ reader' = [reader EXCEPT ![s] = "crashed"]
            /\ UNCHANGED echoed
       ELSE /\ echoed' = [echoed EXCEPT ![s] = @ + 1]
            /\ UNCHANGED reader
    /\ UNCHANGED <<verbose, files, isPc, isScript, child, written, milestones, spawned,
                   mutations>>

\* readline() returns nothing: the pipe is empty and its write end is closed;
\* the loop breaks and the stream is closed
ReaderEof(s) ==
    /\ reader[s] = "running"
    /\ pipe[s] = <<>>
    /\ child.status = "exited"
    /\ reader' = [reader EXCEPT ![s] = "closed"]
    /\ UNCHANGED <<verbose, files, isPc, isScript, child, pipe, written, consumed,
                   echoed, milestones, spawned, mutations>>

\* p.wait()
IS_Wait ==
    /\ isPc = "wait"
    /\ child.status = "exited"
    /\ isPc' = "join1"
    /\ UNCHANGED <<verbose, files, isScript, child, pipe, reader, written, consumed,
                   echoed, milestones, spawned, mutations>>

\* t1.join(): returns when the stdout reader thread has ended
IS_Join1 ==
    /\ isPc = "join1"
    /\ reader["stdout"] \in {"closed", "crashed"}
    /\ isPc' = "join2"
    /\ UNCHANGED <<verbose, files, isScript, child, pipe, reader, written, consumed,
                   echoed, milestones, spawned, mutations>>

\* t2.join(): returns when the stderr reader thread has ended
IS_Join2 ==
    /\ isPc = "join2"
    /\ reader["stderr"] \in {"closed", "crashed"}
    /\ isPc' = "done"
    /\ UNCHANGED <<verbose, files, isScript, child, pipe, reader, written, consumed,
                   echoed, milestones, spawned, mutations>>

\* the 'done.' milestone
IS_Done ==
    /\ isPc = "done"
    /\ milestones' = Append(milestones, "done.")
    /\ isPc' = "unlink"
    /\ UNCHANGED <<verbose, files, isScript, child, pipe, reader, written, consumed, echoed,
                   spawned, mutations>>

\* the script is removed only after a child that exited with 0
IS_Unlink_OnSuccessOnly ==
    /\ isPc = "unlink"
    /\ files' = IF child.code = 0 THEN files \ {isScript} ELSE files
    /\ mutations' = IF child.code = 0 THEN mutations \cup {"unlink"} ELSE mutations
    /\ isPc' = "returned"
    /\ UNCHANGED <<verbose, isScript, child, pipe, reader, written, consumed, echoed,
                   milestones, spawned>>

\* os.unlink(dist_path), the last statement of install_script
IS_Unlink ==
    /\ isPc = "unlink"
    /\ files' = files \ {isScript}
    /\ mutations' = mutations \cup {"unlink"}
    /\ isPc' = "returned"
    /\ UNCHANGED <<verbose, isScript, child, pipe, reader, written, consumed, echoed,
                   milestones, spawned>>

\* the steps of the main thread inside install_script after the spawn
IS_MainThread == IS_Wait \/ IS_Join1 \/ IS_Join2 \/ IS_Done \/ IS_Unlink

\* the bootstrap script was downloaded in this run of install_script
Downloaded == Len(milestones) >= 1 /\ milestones[1] = "Installing"

(***************************************************************************)
(* Part 3: main(), VenvBuilder.__init__ and VenvBuilder.post_setup         *)
(***************************************************************************)
\* the global flags that main() or the builder reads back (--setuptools, --pip
\* and --symlinks store True over a default of True; system_site_packages is
\* only handed on to EnvBuilder)
Flags == {"--clear", "--upgrade", "--rm", "--verbose"}

SubCommands == {"none", "install", "upgrade", "list", "uninstall", "run", "shell"}

\* the argument lists tried for each sub-command (install takes at least one)
CmdLists(sub) ==
    CASE sub = "install" -> {<<"requests", "-q">>}
      [] sub = "upgrade" -> {<<>>, <<"requests", "-q">>}
      [] sub = "uninstall" -> {<<"requests", "-y">>}
      [] sub = "run" -> {<<>>, <<"", "pip", "list">>, <<"python.exe">>}
      [] OTHER -> {<<>>}

CommandLines ==
    {a \in [flags : SUBSET Flags, sub : SubCommands,
            cmds : UNION {CmdLists(sub) : sub \in SubCommands}, rfile : BOOLEAN] :
        /\ a.cmds \in CmdLists(a.sub)
        /\ a.rfile => a.sub = "list"}

\* parser.parse_args(): the sub-command's own store_true argument is the
\* attribute named after it; the upgrade sub-command and the --upgrade flag
\* share the attribute upgrade
parse_args(a) ==
    [sub |-> a.sub,
     cmds |-> a.cmds,
     rfile |-> a.rfile,
     with_setuptools |-> TRUE,
     with_pip |-> TRUE,
     system_site_packages |-> FALSE,
     symlinks |-> TRUE,
     clear |-> "--clear" \in a.flags,
     upgrade |-> ("--upgrade" \in a.flags \/ a.sub = "upgrade"),
     verbose |-> "--verbose" \in a.flags,
     remove |-> "--rm" \in a.flags]

\* v.startswith('-')
StartsWithDash(v) == v \in {"-q", "-y", "-U"}

\* [ v for v in cmds if v.startswith('-') ]
Params(cmds) == SelectSeq(cmds, LAMBDA v : StartsWithDash(v))

\* [ p for p in cmds if not p.startswith('-') ]
Packages(cmds) == SelectSeq(cmds, LAMBDA v : ~StartsWithDash(v))

\* exe and the executables of venv_python
exe == "VENV/bin/python"
venv_pip == "VENV/bin/pip"

\* how main() ends: a returned integer, a returned None, or an exception
NoOutcome == [kind |-> "none", value |-> 0, error |-> ""]
Return(v) == [kind |-> "return", value |-> v, error |-> ""]
ReturnNone == [kind |-> "None", value |-> 0, error |-> ""]
Raise(e) == [kind |-> "raise", value |-> 1, error |-> e]

\* run: the empty tokens dropped, a leading pip or python made absolute
RunArgs(cmds) ==
    LET cmd_args == SelectSeq(cmds, LAMBDA v : v # "")
    IN  IF cmd_args[1] \in {"pip", "pip.exe"} THEN <<venv_pip>> \o Tail(cmd_args)
        ELSE IF cmd_args[1] \in {"python", "python.exe"} THEN <<exe>> \o Tail(cmd_args)
        ELSE cmd_args

\* a branch that ends without a child
NoSpawn(branch, out, msg) ==
    [branch |-> branch, spawn |-> FALSE, argv |-> <<>>, shell |-> FALSE, env |-> {},
     rmtree |-> FALSE, message |-> msg, outcome |-> out]

\* a branch that spawns a child: check_output(..., shell=True) for list, and
\* for run and shell the variables laid over the copy of os.environ
Spawn(branch, args) ==
    [branch |-> branch, spawn |-> TRUE, argv |-> args, shell |-> (branch = "list"),
     env |-> IF branch = "run" THEN {"PATH", "VIRTUAL_ENV"}
             ELSE IF branch = "shell" THEN {"PATH", "VIRTUAL_ENV", "PS1", "PYVENV"}
             ELSE {},
     rmtree |-> FALSE, message |-> "", outcome |-> ReturnNone]

\* the if/elif chain of main() once the environment exists: the branch taken,
\* the child it spawns, or how it ends without one
DispatchPlan(o, env, exists) ==
    IF o.sub = "install"
    THEN Spawn("install", <<exe, "-m", "pip", "install">> \o Params(o.cmds) \o Packages(o.cmds))
    ELSE IF o.upgrade
    THEN IF o.sub # "upgrade"
         THEN NoSpawn("upgrade", Raise("AttributeError"), "")
         ELSE Spawn("upgrade", <<exe, "-m", "pip", "install", "-U">>
                                 \o Params(o.cmds) \o Packages(o.cmds))
    ELSE IF o.sub = "list"
    THEN Spawn("list", <<exe, "-m", "pip", "freeze">>)
    ELSE IF o.sub = "uninstall"
    THEN Spawn("uninstall", <<exe, "-m", "pip", "uninstall">>
                              \o Params(o.cmds) \o Packages(o.cmds))
    ELSE IF o.clear /\ o.upgrade
    THEN NoSpawn("config", Raise("ValueError"), "")
    ELSE IF o.sub = "run"
    THEN IF SelectSeq(o.cmds, LAMBDA v : v # "") = <<>>
         THEN NoSpawn("run", Raise("IndexError"), "")
         ELSE Spawn("run", RunArgs(o.cmds))
    ELSE IF o.sub = "shell"
    THEN IF env.PYVENV
         THEN NoSpawn("shell", Return(1), "Cannot use nested virtual environment shell.")
         ELSE IF ~env.SHELL
         THEN NoSpawn("shell", Raise("RuntimeError"), "")
         ELSE Spawn("shell", <<"SHELL">>)
    ELSE IF o.remove
    THEN IF exists
         THEN [NoSpawn("remove", Return(0), "Remove virtual environment") EXCEPT !.rmtree = TRUE]
         ELSE NoSpawn("remove", Return(0), "Virtual environment not exists.")
    ELSE NoSpawn("none", ReturnNone, "")

\* what Popen and the child can do: Popen raises OSError, or the child runs
\* and exits with a code
ChildResults ==
    {[started |-> FALSE, code |-> 0]} \cup {[started |-> TRUE, code |-> c] : c \in {0, 1}}

NoResult == [started |-> FALSE, code |-> 0 - 1]

\* how the branch ends once its child has ended
ProxyOutcome(branch, r) ==
    IF ~r.started THEN Raise("OSError")
    ELSE IF branch \in {"install", "upgrade"}
    THEN IF r.code # 0 THEN Raise("RuntimeError") ELSE ReturnNone
    ELSE IF branch = "list"
    THEN IF r.code # 0 THEN Raise("CalledProcessError") ELSE ReturnNone
    ELSE Return(r.code)

\* sys.exit(error_code) of the __main__ block
ExitCode(out) ==
    IF out.kind = "raise" THEN 1
    ELSE IF out.kind = "None" THEN 0
    ELSE out.value

\* main() up to the test of venv_exists
Start(a, env) ==
    /\ mainPc = "idle"
    /\ argv' = a
    /\ environ' = env
    /\ options' = parse_args(a)
    /\ venv_exists' = venvExists
    /\ mainPc' = IF venvExists THEN "dispatch" ELSE "create"
    /\ outcome' = NoOutcome
    /\ messages' = <<>>
    /\ bootstrapCodes' = <<>>
    /\ proxyResult' = NoResult
    /\ spawned' = <<>>
    /\ mutations' = {}
    /\ UNCHANGED <<venvExists, verbose, files, isPc, isScript, child, pipe, reader,
                   written, consumed, echoed, milestones>>

\* the child EnvBuilder.create runs for with_pip
EnsurePip ==
    [kind |-> "ensurepip", argv |-> <<exe, "-m", "ensurepip">>, shell |-> FALSE, env |-> {}]

\* VenvBuilder.__init__ up to the hook: EnvBuilder.create makes the
\* directories and the interpreter, runs ensurepip (with_pip is passed on as
\* True) and calls post_setup unless upgrade is set
VenvBuilderCreate ==
    /\ mainPc = "create"
    /\ verbose' = options.verbose
    /\ messages' = Append(messages, "Create virtual environment")
    /\ venvExists' = TRUE
    /\ files' = {}
    /\ mutations' = mutations \cup {"create"}
    /\ \E r \in ChildResults :
          /\ spawned' = IF r.started
                        THEN Append(spawned, EnsurePip)
                        ELSE spawned
          /\ IF ~r.started \/ r.code # 0
             THEN /\ outcome' = Raise(IF r.started THEN "CalledProcessError" ELSE "OSError")
                  /\ mainPc' = "done"
             ELSE IF options.upgrade
             THEN /\ outcome' = Return(0)
                  /\ mainPc' = "done"
             ELSE /\ mainPc' = "setuptools"
                  /\ UNCHANGED outcome
    /\ UNCHANGED <<environ, argv, options, venv_exists, bootstrapCodes, proxyResult,
                   isPc, isScript, child, pipe, reader, written, consumed, echoed,
                   milestones>>

\* post_setup: VIRTUAL_ENV is set, then install_setuptools calls install_script
install_setuptools ==
    /\ mainPc = "setuptools"
    /\ options.with_setuptools
    /\ environ' = [environ EXCEPT !.VIRTUAL_ENV = TRUE]
    /\ install_script("ez_setup.py")
    /\ mainPc' = "setuptools_run"
    /\ UNCHANGED <<venvExists, argv, options, venv_exists, outcome, messages,
                   bootstrapCodes, proxyResult>>

\* install_script has returned to install_setuptools: the setuptools-*.tar.gz
\* archives left in bin_path are removed
install_setuptools_cleanup ==
    /\ mainPc = "setuptools_run"
    /\ isPc = "returned"
    /\ files' = files \ {"setuptools-1.tar.gz"}
    /\ bootstrapCodes' = Append(bootstrapCodes, child.code)
    /\ isPc' = "idle"
    /\ mainPc' = "pip"
    /\ UNCHANGED <<venvExists, environ, argv, options, venv_exists, outcome, messages,
                   proxyResult, verbose, isScript, child, pipe, reader, written,
                   consumed, echoed, milestones, spawned, mutations>>

\* post_setup goes on: install_pip calls install_script
install_pip ==
    /\ mainPc = "pip"
    /\ options.with_pip
    /\ install_script("get-pip.py")
    /\ mainPc' = "pip_run"
    /\ UNCHANGED <<venvExists, environ, argv, options, venv_exists, outcome, messages,
                   bootstrapCodes, proxyResult>>

\* install_script has returned to install_pip, post_setup and the builder
\* return, and main() returns 0
install_pip_return ==
    /\ mainPc = "pip_run"
    /\ isPc = "returned"
    /\ bootstrapCodes' = Append(bootstrapCodes, child.code)
    /\ isPc' = "idle"
    /\ outcome' = Return(0)
    /\ mainPc' = "done"
    /\ UNCHANGED <<venvExists, environ, argv, options, venv_exists, messages,
                   proxyResult, verbose, files, isScript, child, pipe, reader, written,
                   consumed, echoed, milestones, spawned, mutations>>

\* install_script raised: the exception leaves the builder and main()
BuilderRaises ==
    /\ mainPc \in {"setuptools_run", "pip_run"}
    /\ isPc = "raised"
    /\ isPc' = "idle"
    /\ outcome' = Raise(IF Downloaded THEN "OSError" ELSE "URLError")
    /\ mainPc' = "done"
    /\ UNCHANGED <<venvExists, environ, argv, options, venv_exists, messages,
                   bootstrapCodes, proxyResult, verbose, files, isScript, child, pipe,
                   reader, written, consumed, echoed, milestones, spawned, mutations>>

\* the child of a branch as Popen or check_output starts it
ProxyChild(plan) ==
    [kind |-> "proxy", argv |-> plan.argv, shell |-> plan.shell, env |-> plan.env]

\* the if/elif chain of main() with the environment present, to its end
Dispatch ==
    /\ mainPc = "dispatch"
    /\ LET plan == DispatchPlan(options, environ, venvExists)
       IN  IF plan.spawn
           THEN \E r \in ChildResults :
                  /\ proxyResult' = r
                  /\ spawned' = IF r.started
                                THEN Append(spawned, ProxyChild(plan))
                                ELSE spawned
                  /\ outcome' = ProxyOutcome(plan.branch, r)
                  /\ mutations' = IF plan.branch = "list" /\ options.rfile
                                     /\ r.started /\ r.code = 0
                                  THEN mutations \cup {"requirements.txt"}
                                  ELSE mutations
                  /\ UNCHANGED <<messages, venvExists, files>>
           ELSE /\ outcome' = plan.outcome
                /\ messages' = IF plan.message = "" THEN messages
                               ELSE Append(messages, plan.message)
                /\ venvExists' = IF plan.rmtree THEN FALSE ELSE venvExists
                /\ files' = IF plan.rmtree THEN {} ELSE files
                /\ mutations' = IF plan.rmtree THEN mutations \cup {"rmtree"} ELSE mutations
                /\ UNCHANGED <<proxyResult, spawned>>
    /\ mainPc' = "done"
    /\ UNCHANGED <<environ, argv, options, venv_exists, bootstrapCodes, verbose, isPc,
                   isScript, child, pipe, reader, written, consumed, echoed, milestones>>

(***************************************************************************)
(* Specifications                                                          *)
(***************************************************************************)
NameIdle ==
    /\ cwd1 = <<"/">>
    /\ cwd2 = <<"/">>
    /\ name1 = <<>>
    /\ name2 = <<>>
    /\ namePc = "start"

NameInit ==
    /\ cwd1 \in WorkingDirs
    /\ cwd2 \in WorkingDirs
    /\ name1 = <<>>
    /\ name2 = <<>>
    /\ namePc = "start"
    /\ verbose = FALSE
    /\ files = {}
    /\ isPc = "idle"
    /\ isScript = "none"
    /\ child = [status |-> "none", prog |-> <<>>, code |-> 0]
    /\ pipe = [s \in {"stdout", "stderr"} |-> <<>>]
    /\ reader = [s \in {"stdout", "stderr"} |-> "none"]
    /\ written = [s \in {"stdout", "stderr"} |-> <<>>]
    /\ consumed = [s \in {"stdout", "stderr"} |-> <<>>]
    /\ echoed = [s \in {"stdout", "stderr"} |-> 0]
    /\ milestones = <<>>
    /\ spawned = <<>>
    /\ mutations = {}
    /\ venvExists = FALSE
    /\ environ = [PYVENV |-> FALSE, SHELL |-> TRUE, VIRTUAL_ENV |-> FALSE]
    /\ argv = [flags |-> {}, sub |-> "none", cmds |-> <<>>, rfile |-> FALSE]
    /\ options = parse_args(argv)
    /\ venv_exists = FALSE
    /\ mainPc = "idle"
    /\ outcome = NoOutcome
    /\ messages = <<>>
    /\ bootstrapCodes = <<>>
    /\ proxyResult = NoResult

\* two invocations of the tool, each deriving the name for its own directory
DeriveNames ==
    /\ namePc = "start"
    /\ name1' = get_venv_name(cwd1)
    /\ name2' = get_venv_name(cwd2)
    /\ namePc' = "derived"
    /\ UNCHANGED <<cwd1, cwd2>>
    /\ UNCHANGED <<isVars, mainVars>>

NameNext == DeriveNames

SpecName == NameInit /\ [][NameNext]_vars

\* install_script about to be called by post_setup, in the first invocation
\* for a directory
InstallInit ==
    /\ NameIdle
    /\ verbose \in BOOLEAN
    /\ files = {}
    /\ isPc = "idle"
    /\ isScript = "none"
    /\ child = NoChild
    /\ pipe = EmptyStreams
    /\ reader = [s \in Streams |-> "none"]
    /\ written = EmptyStreams
    /\ consumed = EmptyStreams
    /\ echoed = [s \in Streams |-> 0]
    /\ milestones = <<>>
    /\ spawned = <<EnsurePip>>
    /\ mutations = {"create"}
    /\ venvExists = TRUE
    /\ environ = [PYVENV |-> FALSE, SHELL |-> TRUE, VIRTUAL_ENV |-> TRUE]
    /\ argv = [flags |-> IF verbose THEN {"--verbose"} ELSE {}, sub |-> "none",
               cmds |-> <<>>, rfile |-> FALSE]
    /\ options = parse_args(argv)
    /\ venv_exists = FALSE
    /\ mainPc = "setuptools"
    /\ outcome = NoOutcome
    /\ messages = <<"Create virtual environment">>
    /\ bootstrapCodes = <<>>
    /\ proxyResult = NoResult

\* a step of install_script, its child or its readers: nothing else changes
Alone(A) == A /\ UNCHANGED <<nameVars, mainVars>>

InstallNext ==
    \/ \E package \in Scripts : Alone(install_script(package))
    \/ Alone(IS_Download)
    \/ \E prog \in ChildPrograms(MaxLines) : Alone(IS_Spawn(prog))
    \/ Alone(IS_SpawnFails)
    \/ Alone(ChildWrite)
    \/ Alone(ChildExit)
    \/ \E s \in Streams : Alone(ReaderLine(s))
    \/ \E s \in Streams : Alone(ReaderEof(s))
    \/ Alone(IS_Wait)
    \/ Alone(IS_Join1)
    \/ Alone(IS_Join2)
    \/ Alone(IS_Done)
    \/ Alone(IS_Unlink)

\* install_script run on its own
SpecInstall == InstallInit /\ [][InstallNext]_vars

\* the same, with the scheduling the operating system provides: a child that
\* can run runs, a thread that can run runs
FairSpecInstall ==
    /\ SpecInstall
    /\ WF_vars(Alone(ChildWrite))
    /\ WF_vars(Alone(ChildExit))
    /\ \A s \in Streams : WF_vars(Alone(ReaderLine(s))) /\ WF_vars(Alone(ReaderEof(s)))
    /\ WF_vars(Alone(IS_MainThread))

\* sys.exit(error_code): the process ends, and with it everything but the
\* filesystem
ProcessExit ==
    /\ mainPc = "done"
    /\ mainPc' = "idle"
    /\ verbose' = FALSE
    /\ isPc' = "idle"
    /\ isScript' = "none"
    /\ child' = NoChild
    /\ pipe' = EmptyStreams
    /\ reader' = [s \in Streams |-> "none"]
    /\ written' = EmptyStreams
    /\ consumed' = EmptyStreams
    /\ echoed' = [s \in Streams |-> 0]
    /\ milestones' = <<>>
    /\ spawned' = <<>>
    /\ mutations' = {}
    /\ environ' = [PYVENV |-> FALSE, SHELL |-> TRUE, VIRTUAL_ENV |-> FALSE]
    /\ argv' = [flags |-> {}, sub |-> "none", cmds |-> <<>>, rfile |-> FALSE]
    /\ options' = parse_args(argv')
    /\ venv_exists' = FALSE
    /\ outcome' = NoOutcome
    /\ messages' = <<>>
    /\ bootstrapCodes' = <<>>
    /\ proxyResult' = NoResult
    /\ UNCHANGED <<venvExists, files>>

\* the environment main() may be started in
Environs == [PYVENV : BOOLEAN, SHELL : BOOLEAN, VIRTUAL_ENV : {FALSE}]

MainInit ==
    /\ NameIdle
    /\ verbose = FALSE
    /\ files = {}
    /\ isPc = "idle"
    /\ isScript = "none"
    /\ child = NoChild
    /\ pipe = EmptyStreams
    /\ reader = [s \in Streams |-> "none"]
    /\ written = EmptyStreams
    /\ consumed = EmptyStreams
    /\ echoed = [s \in Streams |-> 0]
    /\ milestones = <<>>
    /\ spawned = <<>>
    /\ mutations = {}
    /\ venvExists = FALSE
    /\ environ = [PYVENV |-> FALSE, SHELL |-> TRUE, VIRTUAL_ENV |-> FALSE]
    /\ argv = [flags |-> {}, sub |-> "none", cmds |-> <<>>, rfile |-> FALSE]
    /\ options = parse_args(argv)
    /\ venv_exists = FALSE
    /\ mainPc = "idle"
    /\ outcome = NoOutcome
    /\ messages = <<>>
    /\ bootstrapCodes = <<>>
    /\ proxyResult = NoResult

MainNext ==
    \/ \E a \in CommandLines, env \in Environs : Start(a, env) /\ UNCHANGED nameVars
    \/ VenvBuilderCreate /\ UNCHANGED nameVars
    \/ install_setuptools /\ UNCHANGED nameVars
    \/ install_setuptools_cleanup /\ UNCHANGED nameVars
    \/ install_pip /\ UNCHANGED nameVars
    \/ install_pip_return /\ UNCHANGED nameVars
    \/ BuilderRaises /\ UNCHANGED nameVars
    \/ Dispatch /\ UNCHANGED nameVars
    \/ ProcessExit /\ UNCHANGED nameVars
    \/ Alone(IS_Download)
    \/ \E prog \in ChildPrograms(MainLines) : Alone(IS_Spawn(prog))
    \/ Alone(IS_SpawnFails)
    \/ Alone(ChildWrite)
    \/ Alone(ChildExit)
    \/ \E s \in Streams : Alone(ReaderLine(s))
    \/ \E s \in Streams : Alone(ReaderEof(s))
    \/ Alone(IS_Wait)
    \/ Alone(IS_Join1)
    \/ Alone(IS_Join2)
    \/ Alone(IS_Done)
    \/ Alone(IS_Unlink)

\* invocations of the tool, one after the other, on the same filesystem
SpecMain == MainInit /\ [][MainNext]_vars

(***************************************************************************)
(* Properties                                                              *)
(***************************************************************************)
\* the character a path character becomes under the substitution
Canon(c) == IF c \in SanitizedChars THEN "_" ELSE c

\* p and q agree, up to the substitution, on their first 42 characters
SameSanitizedPrefix(p, q) ==
    /\ Min(Len(p), TruncLen) = Min(Len(q), TruncLen)
    /\ \A i \in 1..Min(Len(p), TruncLen) : Canon(p[i]) = Canon(q[i])

\* C8 (as stated): with a collision-free hash, two different working
\* directories never receive the same environment name.
C8_DistinctDirsDistinctNames ==
    (namePc = "derived" /\ cwd1 # cwd2) => name1 # name2

\* C8 (amended): with a collision-free hash, two working directories receive
\* the same name exactly when they have the same last segment and agree, after
\* the character substitution, on their first 42 characters; in particular
\* the same directory always receives the same name.
C8_SameNameIffSameBaseAndPrefix ==
    namePc = "derived" =>
        /\ (name1 = name2) <=>
               (LastPart(cwd1) = LastPart(cwd2) /\ SameSanitizedPrefix(cwd1, cwd2))
        /\ cwd1 = cwd2 => name1 = name2

\* C8 witness: two different directories, longer than 42 characters, that
\* were given the same name.
C8_Witness ==
    /\ namePc = "derived"
    /\ cwd1 # cwd2
    /\ Len(cwd1) > TruncLen
    /\ name1 = name2


\* C5 (as stated): once install_script has finished with the script
\* downloaded, by returning or by raising, the script file is gone.
C5_ScriptGoneWhenFinished ==
    (isPc \in {"returned", "raised"} /\ Downloaded) => isScript \notin files

\* C5 (amended): once install_script has returned, whatever the exit code of
\* the child, the downloaded script file is gone; when the child cannot be
\* spawned install_script raises and the script file stays.
C5_ScriptGoneWhenReturned ==
    /\ isPc = "returned" => isScript \notin files
    /\ (isPc = "raised" /\ Downloaded) => isScript \in files

\* C5 witness: install_script has returned after a child that exited non-zero.
C5_Witness ==
    /\ isPc = "returned"
    /\ Downloaded
    /\ child.status = "exited"
    /\ child.code # 0
    /\ isScript \notin files

\* C9: when the 'done.' milestone is written the child has exited, both
\* readers have reached end-of-stream and ended, and every line the child
\* wrote has been taken and put out by its reader.
C9_DrainedBeforeDone ==
    "done." \in {milestones[i] : i \in 1..Len(milestones)} =>
        /\ child.status = "exited"
        /\ \A s \in Streams :
              /\ reader[s] = "closed"
              /\ consumed[s] = written[s]
              /\ echoed[s] = Len(written[s])

\* C10: with fair scheduling of the child and the readers, once the child is
\* spawned install_script eventually returns.
C10_InstallScriptReturns == (isPc = "wait") ~> (isPc = "returned")

\* the child spawned by the dispatch of the sub-operation, if any
ProxySpawns == {i \in 1..Len(spawned) : spawned[i].kind = "proxy"}

\* C1: an invocation with a sub-operation that finds no environment creates
\* it and then, unless it ends in an error, runs the sub-operation in a child
\* whose exit code is the exit code of the invocation.
C1_CreateThenRunSubOperation ==
    (/\ mainPc = "done"
     /\ ~venv_exists
     /\ argv.sub # "none"
     /\ outcome.kind # "raise"
     /\ ~(argv.sub = "shell" /\ environ.PYVENV))
    => /\ "create" \in mutations
       /\ ProxySpawns # {}
       /\ proxyResult.started
       /\ ExitCode(outcome) = proxyResult.code

\* no download failed and no child failed to start or to succeed where the
\* code checks it
NoToolFailure == outcome.error \notin {"OSError", "CalledProcessError", "URLError"}

\* C2: an invocation given both --clear and --upgrade ends in the
\* configuration error, having changed nothing on disk and spawned nothing
\* (stated for the runs in which no tool fails).
C2_ClearWithUpgradeIsConfigError ==
    (mainPc = "done" /\ {"--clear", "--upgrade"} \subseteq argv.flags /\ NoToolFailure)
    => /\ outcome = Raise("ValueError")
       /\ mutations = {}
       /\ spawned = <<>>

\* C3: shell with the nesting sentinel PYVENV set ends with exit code 1 and
\* spawns no child at all, whether or not the environment exists (stated for
\* the runs in which no tool fails).
C3_NestedShellRefusedWithoutSpawn ==
    (mainPc = "done" /\ argv.sub = "shell" /\ environ.PYVENV /\ NoToolFailure)
    => /\ ExitCode(outcome) = 1
       /\ spawned = <<>>

\* C4: --rm with no environment returns 0, says "not exists" and leaves the
\* location absent and the disk untouched; with an environment it deletes it
\* and returns 0 (stated for --rm given alone or with --clear or --verbose,
\* and for the runs in which no tool fails).
C4_RemoveIsInformational ==
    (/\ mainPc = "done"
     /\ options.remove
     /\ argv.sub = "none"
     /\ ~options.upgrade
     /\ NoToolFailure)
    => IF venv_exists
       THEN /\ outcome = Return(0)
            /\ "rmtree" \in mutations
            /\ ~venvExists
       ELSE /\ outcome = Return(0)
            /\ messages = <<"Virtual environment not exists.">>
            /\ mutations = {}
            /\ ~venvExists

\* C6: an invocation in whose build a bootstrap child exited non-zero does not
\* end as a success.
C6_BootstrapFailureSurfaced ==
    (mainPc = "done" /\ \E i \in 1..Len(bootstrapCodes) : bootstrapCodes[i] # 0)
    => ExitCode(outcome) # 0

\* the command line with the creation flags taken off
WithoutCreationFlags(a) == [a EXCEPT !.flags = a.flags \cap {"--rm"}]

\* C7: with the environment present the creation flags change nothing: the
\* invocation spawns the child and ends the way the same command line without
\* those flags does (for the same behaviour of the child).
C7_CreationFlagsIgnored ==
    (mainPc = "done" /\ venv_exists)
    => LET plan == DispatchPlan(parse_args(WithoutCreationFlags(argv)), environ, TRUE)
       IN  IF plan.spawn /\ proxyResult.started
           THEN /\ spawned = <<ProxyChild(plan)>>
                /\ outcome = ProxyOutcome(plan.branch, proxyResult)
           ELSE IF plan.spawn
           THEN /\ spawned = <<>>
                /\ outcome \in {Raise("OSError")}
           ELSE /\ spawned = <<>>
                /\ outcome = plan.outcome

====
